---- MODULE Spec2Model ----
(***************************************************************************)
(* A model of the xor_name crate (src/src/lib.rs): the XorName value type, *)
(* its XOR-distance comparisons, bucket index, total order, hex codec,     *)
(* debug form and sequence codec.                                          *)
(*                                                                         *)
(* A XorName is a function 1..XOR_NAME_LEN -> 0..255; index i of the model *)
(* is index i-1 of the Rust array.  A string is a sequence of one-character*)
(* strings.  Orderings are the strings "Less", "Equal", "Greater".         *)
(*                                                                         *)
(* A for loop of the source is an operator over an index range lo..hi that *)
(* halves the range: the iterations run in index order and stop at the     *)
(* first one that returns, as in the source.                               *)
(***************************************************************************)
EXTENDS Integers, Sequences, FiniteSets

VARIABLES self, lhs, rhs, text, wire, op, res

vars == <<self, lhs, rhs, text, wire, op, res>>

\* ------------------------------------------------------------------------
\* Program constants
\* ------------------------------------------------------------------------

XOR_NAME_LEN == 64

XOR_NAME_BITS == XOR_NAME_LEN * 8

\* ------------------------------------------------------------------------
\* Bounds of the model: which names the operations are applied to
\* ------------------------------------------------------------------------

\* Number of byte positions (taken from ProbeOrder) at which a probe name
\* departs from its fill byte.
NumProbes == 2

\* Number of ramp names, whose bytes all differ from each other (as a random
\* name's do), in the codec specification.
MaxRamp == 2

\* Input strings of from_hex have a length within MaxSlack of 0 or of
\* 2 * XOR_NAME_LEN.
MaxSlack == 2

ProbeOrder == <<1, XOR_NAME_LEN, 33, 2, XOR_NAME_LEN - 1, 3, XOR_NAME_LEN - 2>>

ProbePositions == {ProbeOrder[k] : k \in 1..NumProbes}

ProbeBytes == {0, 15, 128}

ProbeName(f, p, v) == [i \in 1..XOR_NAME_LEN |-> IF i = p THEN v ELSE f]

\* The names of the distance and ordering specification: names of bytes
\* 0x01 but for one probe byte, which differ from each other in one or two
\* bytes, and two names of bytes 0xf0, which differ from those in every byte.
Names ==
    {ProbeName(1, p, v) : p \in ProbePositions, v \in ProbeBytes}
    \cup {ProbeName(240, 1, v) : v \in {15, 240}}

RampName(k) == [i \in 1..XOR_NAME_LEN |-> (i * (2 * k + 1) + 7 * k) % 256]

\* The name all of whose bytes are 0x01.
LowCharName == [i \in 1..XOR_NAME_LEN |-> 1]

\* The names of the codec specification: the ramps, the name of bytes 0x01,
\* and a name of bytes 0xff ending in a byte 0x00.
CodecNames ==
    {RampName(k) : k \in 1..MaxRamp} \cup {LowCharName, ProbeName(255, XOR_NAME_LEN, 0)}

\* ------------------------------------------------------------------------
\* u8 arithmetic
\* ------------------------------------------------------------------------

Pow2(k) == 2 ^ k

BitOf(x, k) == (x \div Pow2(k)) % 2

\* u8 ^ u8
BitXor(x, y) ==
    LET D(k) == IF BitOf(x, k) # BitOf(y, k) THEN Pow2(k) ELSE 0
    IN  D(0) + D(1) + D(2) + D(3) + D(4) + D(5) + D(6) + D(7)

\* u8::leading_zeros
RECURSIVE leading_zeros_from(_, _)
leading_zeros_from(x, k) ==
    IF k < 0 THEN 8
    ELSE IF BitOf(x, k) = 1 THEN 7 - k
    ELSE leading_zeros_from(x, k - 1)

leading_zeros(x) == leading_zeros_from(x, 7)

\* Ord::cmp on u8
cmp_u8(x, y) == IF x < y THEN "Less" ELSE IF x > y THEN "Greater" ELSE "Equal"

\* ------------------------------------------------------------------------
\* XorName: distance and ordering
\* ------------------------------------------------------------------------

\* The iterations of the loop of bucket_index for byte_index (0-based, as in
\* the source) in lo..hi, in order: what the first iteration that returns
\* returns, or -1 if none does.
RECURSIVE bucket_index_loop(_, _, _, _)
bucket_index_loop(this, name, lo, hi) ==
    IF lo > hi THEN -1
    ELSE IF lo = hi
    THEN IF this[lo + 1] # name[lo + 1]
         THEN (lo * 8) + leading_zeros(BitXor(this[lo + 1], name[lo + 1]))
         ELSE -1
    ELSE LET mid == (lo + hi) \div 2
             first == bucket_index_loop(this, name, lo, mid)
         IN  IF first # -1 THEN first
             ELSE bucket_index_loop(this, name, mid + 1, hi)

\* Mutant: the bit offset within the first differing byte is dropped.
bucket_index_bytes_only(this, name) ==
    LET diff == {i \in 1..XOR_NAME_LEN : this[i] # name[i]}
    IN  IF diff = {} THEN XOR_NAME_BITS
        ELSE 8 * ((CHOOSE i \in diff : \A j \in diff : i <= j) - 1)

bucket_index(this, name) ==
    LET returned == bucket_index_loop(this, name, 0, XOR_NAME_LEN - 1)
    IN  IF returned # -1 THEN returned ELSE XOR_NAME_BITS

bucket_distance(this, name) == bucket_index(this, name)

\* The iterations of the loop of cmp_distance for i (0-based) in lo..hi, in
\* order: what the first iteration that returns returns, or "none".
RECURSIVE cmp_distance_loop(_, _, _, _, _)
cmp_distance_loop(this, l, r, lo, hi) ==
    IF lo > hi THEN "none"
    ELSE IF lo = hi
    THEN IF l[lo + 1] # r[lo + 1]
         THEN cmp_u8(BitXor(l[lo + 1], this[lo + 1]), BitXor(r[lo + 1], this[lo + 1]))
         ELSE "none"
    ELSE LET mid == (lo + hi) \div 2
             first == cmp_distance_loop(this, l, r, lo, mid)
         IN  IF first # "none" THEN first
             ELSE cmp_distance_loop(this, l, r, mid + 1, hi)

\* Mutant: the bytes are compared without XORing them with self.
cmp_distance_no_xor(this, l, r) ==
    LET diff == {i \in 1..XOR_NAME_LEN : l[i] # r[i]}
    IN  IF diff = {} THEN "Equal"
        ELSE LET i == CHOOSE i \in diff : \A j \in diff : i <= j
             IN  cmp_u8(l[i], r[i])

cmp_distance(this, l, r) ==
    LET returned == cmp_distance_loop(this, l, r, 0, XOR_NAME_LEN - 1)
    IN  IF returned # "none" THEN returned ELSE "Equal"

cmp_closeness(this, l, r) == cmp_distance(this, l, r)

\* Mutant: lhs and rhs are passed in the wrong order.
closer_to_target_swapped(l, r, target) == cmp_closeness(target, r, l) = "Less"

closer_to_target(l, r, target) == cmp_closeness(target, l, r) = "Less"

closer_to_target_or_equal(l, r, target) == cmp_closeness(target, l, r) # "Greater"

\* Ord::cmp on two byte slices: the elements at the indices lo..hi (1-based)
\* compared in order, up to the first pair that is not Equal ("none" if
\* there is none) ...
RECURSIVE slice_cmp_loop(_, _, _, _)
slice_cmp_loop(x, y, lo, hi) ==
    IF lo > hi THEN "none"
    ELSE IF lo = hi
    THEN IF cmp_u8(x[lo], y[lo]) # "Equal" THEN cmp_u8(x[lo], y[lo]) ELSE "none"
    ELSE LET mid == (lo + hi) \div 2
             first == slice_cmp_loop(x, y, lo, mid)
         IN  IF first # "none" THEN first
             ELSE slice_cmp_loop(x, y, mid + 1, hi)

\* Mutant: the bytes are compared as signed (i8) values.
slice_cmp_signed(x, y) ==
    LET S(b) == IF b >= 128 THEN b - 256 ELSE b
        diff == {i \in 1..Len(x) : x[i] # y[i]}
    IN  IF diff = {} THEN "Equal"
        ELSE LET i == CHOOSE i \in diff : \A j \in diff : i <= j
             IN  IF S(x[i]) < S(y[i]) THEN "Less" ELSE "Greater"

\* ... over the common length, and then the lengths.
slice_cmp(x, y) ==
    LET l == IF Len(x) < Len(y) THEN Len(x) ELSE Len(y)
        returned == slice_cmp_loop(x, y, 1, l)
    IN  IF returned # "none" THEN returned ELSE cmp_u8(Len(x), Len(y))

cmp(a, b) == slice_cmp(a, b)

partial_cmp(a, b) == <<"Some", slice_cmp(a, b)>>

lt(a, b) == slice_cmp(a, b) = "Less"

le(a, b) == slice_cmp(a, b) # "Greater"

gt(a, b) == slice_cmp(a, b) = "Greater"

ge(a, b) == slice_cmp(a, b) # "Less"

\* ------------------------------------------------------------------------
\* Results
\* ------------------------------------------------------------------------

Ok(v) == [tag |-> "Ok", val |-> v]

Err(kind, v) == [tag |-> kind, val |-> v]

Panic == [tag |-> "panic", val |-> <<>>]

\* ------------------------------------------------------------------------
\* Hex codec (rustc_serialize::hex, as used by as_hex and from_hex)
\* ------------------------------------------------------------------------

\* CHARS of rustc_serialize::hex
CHARS == <<"0", "1", "2", "3", "4", "5", "6", "7",
           "8", "9", "a", "b", "c", "d", "e", "f">>

UpperAF == <<"A", "B", "C", "D", "E", "F">>

IndexIn(seq, c) == CHOOSE i \in 1..Len(seq) : seq[i] = c

InSeq(seq, c) == \E i \in 1..Len(seq) : seq[i] = c

\* Mutant: the two digits of a byte are written low nibble first.
to_hex_nibbles_swapped(bytes) ==
    [k \in 1..(2 * Len(bytes)) |->
        LET b == bytes[(k + 1) \div 2]
        IN  IF k % 2 = 1 THEN CHARS[(b % 16) + 1] ELSE CHARS[(b \div 16) + 1]]

\* [u8]::to_hex: CHARS[byte >> 4] then CHARS[byte & 0xf] for every byte.
to_hex(bytes) ==
    [k \in 1..(2 * Len(bytes)) |->
        LET b == bytes[(k + 1) \div 2]
        IN  IF k % 2 = 1 THEN CHARS[(b \div 16) + 1] ELSE CHARS[(b % 16) + 1]]

as_hex(this) == to_hex(this)

\* The arms b'A'...b'F', b'a'...b'f' and b'0'...b'9' of str::from_hex.
is_hex_digit(byte) == InSeq(CHARS, byte) \/ InSeq(UpperAF, byte)

hex_digit_value(byte) ==
    IF InSeq(UpperAF, byte) THEN IndexIn(UpperAF, byte) - 1 + 10
    ELSE IndexIn(CHARS, byte) - 1

\* The arm b' ' | b'\r' | b'\n' | b'\t' of str::from_hex.
is_hex_whitespace(byte) == byte \in {" ", "\r", "\n", "\t"}

\* One iteration of the loop of str::from_hex, on the byte at idx (0-based).
\* The loop state is the vector b built so far, modulus, the u8 buf being
\* assembled, and ret, the result the loop has returned with (if any).
str_from_hex_step(s, idx, st) ==
    IF st.ret.tag # "none" THEN st
    ELSE LET byte == s[idx + 1]
             shifted == (st.buf * 16) % 256
         IN  IF is_hex_digit(byte)
             THEN LET filled == shifted + hex_digit_value(byte)
                  IN  IF st.modulus + 1 = 2
                      THEN [st EXCEPT !.b = Append(st.b, filled), !.modulus = 0,
                                      !.buf = filled]
                      ELSE [st EXCEPT !.modulus = st.modulus + 1, !.buf = filled]
             ELSE IF is_hex_whitespace(byte)
             THEN [st EXCEPT !.buf = shifted \div 16]
             ELSE [st EXCEPT !.ret = Err("InvalidHexCharacter", <<byte, idx>>)]

\* The iterations for idx in lo..hi, in order, up to the one that returns.
RECURSIVE str_from_hex_loop(_, _, _, _)
str_from_hex_loop(s, lo, hi, st) ==
    IF lo > hi THEN st
    ELSE IF lo = hi THEN str_from_hex_step(s, lo, st)
    ELSE LET mid == (lo + hi) \div 2
             first == str_from_hex_loop(s, lo, mid, st)
         IN  IF first.ret.tag # "none" THEN first
             ELSE str_from_hex_loop(s, mid + 1, hi, first)

\* str::from_hex
str_from_hex(s) ==
    LET st == str_from_hex_loop(s, 0, Len(s) - 1,
                  [b |-> <<>>, modulus |-> 0, buf |-> 0,
                   ret |-> [tag |-> "none", val |-> <<>>]])
    IN  IF st.ret.tag # "none" THEN st.ret
        ELSE IF st.modulus = 0 THEN Ok(st.b)
        ELSE Err("InvalidHexLength", <<>>)

slice_as_u8_64_array(slice) ==
    IF Len(slice) # 64 THEN Panic
    ELSE Ok([i \in 1..64 |-> slice[i]])

\* Mutant: the check of the decoded length is left out.
from_hex_no_length_check(s) ==
    LET r == str_from_hex(s)
    IN  IF r.tag = "InvalidHexCharacter" THEN Err("InvalidCharacter", r.val)
        ELSE IF r.tag = "InvalidHexLength" THEN Err("InvalidLength", <<>>)
        ELSE slice_as_u8_64_array(r.val)

from_hex(s) ==
    LET r == str_from_hex(s)
    IN  IF r.tag = "InvalidHexCharacter" THEN Err("InvalidCharacter", r.val)
        ELSE IF r.tag = "InvalidHexLength" THEN Err("InvalidLength", <<>>)
        ELSE IF Len(r.val) # XOR_NAME_LEN THEN Err("InvalidLength", <<>>)
        ELSE slice_as_u8_64_array(r.val)

\* ------------------------------------------------------------------------
\* Debug form
\* ------------------------------------------------------------------------

\* Mutant: "{:x}", without the minimum width of two and the zero padding.
fmt_x_unpadded(b) ==
    IF b < 16 THEN <<CHARS[b + 1]>> ELSE <<CHARS[(b \div 16) + 1], CHARS[(b % 16) + 1]>>

\* "{:02x}" of a u8: lower-case hex, zero-padded to at least two characters.
fmt_02x(b) ==
    LET digits == IF b < 16 THEN <<CHARS[b + 1]>>
                  ELSE <<CHARS[(b \div 16) + 1], CHARS[(b % 16) + 1]>>
    IN  IF Len(digits) < 2 THEN <<"0">> \o digits ELSE digits

get_debug_id(this) ==
    fmt_02x(this[0 + 1]) \o fmt_02x(this[1 + 1]) \o fmt_02x(this[2 + 1])
    \o <<".", ".">>
    \o fmt_02x(this[(XOR_NAME_LEN - 3) + 1])
    \o fmt_02x(this[(XOR_NAME_LEN - 2) + 1])
    \o fmt_02x(this[(XOR_NAME_LEN - 1) + 1])

\* ------------------------------------------------------------------------
\* Sequence codec.  What an Encoder writes for a sequence and a Decoder
\* reads back is the length tag and the elements.
\* ------------------------------------------------------------------------

encode(this) ==
    [len |-> XOR_NAME_LEN, elts |-> [i \in 1..XOR_NAME_LEN |-> this[i]]]

\* The iterations of the loop of decode for i (0-based) in lo..hi, in order,
\* from the array arr: Ok of the array filled so far, or the error of the
\* first read_seq_elt that fails (try!), which one does that finds no
\* element or one that is no u8.
RECURSIVE decode_loop(_, _, _, _)
decode_loop(w, lo, hi, arr) ==
    IF lo > hi THEN Ok(arr)
    ELSE IF lo = hi
    THEN IF lo + 1 > Len(w.elts) \/ w.elts[lo + 1] \notin 0..255
         THEN Err("DecoderError", <<"read_seq_elt", lo>>)
         ELSE Ok([arr EXCEPT ![lo + 1] = w.elts[lo + 1]])
    ELSE LET mid == (lo + hi) \div 2
             first == decode_loop(w, lo, mid, arr)
         IN  IF first.tag # "Ok" THEN first
             ELSE decode_loop(w, mid + 1, hi, first.val)

decode(w) ==
    IF w.len # XOR_NAME_LEN
    THEN Err("DecoderError",
             <<"Expecting array of length: ", XOR_NAME_LEN, ", but found ", w.len>>)
    ELSE decode_loop(w, 0, XOR_NAME_LEN - 1, [i \in 1..XOR_NAME_LEN |-> 0])

\* ------------------------------------------------------------------------
\* Specification of the distance and ordering operations: three names are
\* drawn, and every operation may be applied to them in any order.
\* ------------------------------------------------------------------------

NoText == <<>>

NoWire == [len |-> 0, elts |-> <<>>]

Init ==
    /\ self \in Names
    /\ lhs \in Names
    /\ rhs \in Names
    /\ text = NoText
    /\ wire = NoWire
    /\ op = "new"
    /\ res = "none"

BucketIndex ==
    /\ op' = "bucket_index"
    /\ res' = bucket_index(self, lhs)
    /\ UNCHANGED <<self, lhs, rhs, text, wire>>

BucketDistance ==
    /\ op' = "bucket_distance"
    /\ res' = bucket_distance(self, lhs)
    /\ UNCHANGED <<self, lhs, rhs, text, wire>>

CmpDistance ==
    /\ op' = "cmp_distance"
    /\ res' = cmp_distance(self, lhs, rhs)
    /\ UNCHANGED <<self, lhs, rhs, text, wire>>

CloserToTarget ==
    /\ op' = "closer_to_target"
    /\ res' = closer_to_target(lhs, rhs, self)
    /\ UNCHANGED <<self, lhs, rhs, text, wire>>

CloserToTargetOrEqual ==
    /\ op' = "closer_to_target_or_equal"
    /\ res' = closer_to_target_or_equal(lhs, rhs, self)
    /\ UNCHANGED <<self, lhs, rhs, text, wire>>

Cmp ==
    /\ op' = "cmp"
    /\ res' = cmp(lhs, rhs)
    /\ UNCHANGED <<self, lhs, rhs, text, wire>>

PartialCmp ==
    /\ op' = "partial_cmp"
    /\ res' = partial_cmp(lhs, rhs)
    /\ UNCHANGED <<self, lhs, rhs, text, wire>>

Lt ==
    /\ op' = "lt"
    /\ res' = lt(lhs, rhs)
    /\ UNCHANGED <<self, lhs, rhs, text, wire>>

Le ==
    /\ op' = "le"
    /\ res' = le(lhs, rhs)
    /\ UNCHANGED <<self, lhs, rhs, text, wire>>

Gt ==
    /\ op' = "gt"
    /\ res' = gt(lhs, rhs)
    /\ UNCHANGED <<self, lhs, rhs, text, wire>>

Ge ==
    /\ op' = "ge"
    /\ res' = ge(lhs, rhs)
    /\ UNCHANGED <<self, lhs, rhs, text, wire>>

Next ==
    \/ BucketIndex
    \/ BucketDistance
    \/ CmpDistance
    \/ CloserToTarget
    \/ CloserToTargetOrEqual
    \/ Cmp
    \/ PartialCmp
    \/ Lt
    \/ Le
    \/ Gt
    \/ Ge

Spec == Init /\ [][Next]_vars

\* ------------------------------------------------------------------------
\* Mathematical notions the properties are stated with
\* ------------------------------------------------------------------------

\* The XOR distance a XOR b, as the byte array of an 8 * XOR_NAME_LEN bit
\* number, most significant byte first.
XorDistance(a, b) == [i \in 1..XOR_NAME_LEN |-> BitXor(a[i], b[i])]

\* The borrow out of byte lo when the bytes lo..hi of y are subtracted from
\* those of x, least significant byte (hi) first, with borrow b into byte hi.
RECURSIVE Borrow(_, _, _, _, _)
Borrow(x, y, lo, hi, b) ==
    IF lo > hi THEN b
    ELSE IF lo = hi THEN (IF x[lo] - y[lo] - b < 0 THEN 1 ELSE 0)
    ELSE LET mid == (lo + hi) \div 2
             low == Borrow(x, y, mid + 1, hi, b)
         IN  IF low = 0 THEN Borrow(x, y, lo, mid, 0) ELSE Borrow(x, y, lo, mid, 1)

\* x < y as unsigned big-endian integers: x - y is negative.
NumLess(x, y) == Borrow(x, y, 1, Len(x), 0) = 1

NumCmp(x, y) ==
    IF NumLess(x, y) THEN "Less" ELSE IF NumLess(y, x) THEN "Greater" ELSE "Equal"

Reverse(o) == IF o = "Less" THEN "Greater" ELSE IF o = "Greater" THEN "Less" ELSE o

\* Bit j of a name, j = 0 being the most significant bit.
NameBit(x, j) == BitOf(x[(j \div 8) + 1], 7 - (j % 8))

\* The number of leading bits on which a and b agree.
CommonPrefixBits(a, b) ==
    LET diff == {j \in 0..(XOR_NAME_BITS - 1) : NameBit(a, j) # NameBit(b, j)}
    IN  IF diff = {} THEN XOR_NAME_BITS
        ELSE CHOOSE j \in diff : \A k \in diff : j <= k

\* The lexicographic comparison of two byte arrays of the same length.
LexCmp(a, b) ==
    LET diff == {i \in 1..Len(a) : a[i] # b[i]}
    IN  IF diff = {} THEN "Equal"
        ELSE LET i == CHOOSE i \in diff : \A j \in diff : i <= j
             IN  IF a[i] < b[i] THEN "Less" ELSE "Greater"

ZeroName == [i \in 1..XOR_NAME_LEN |-> 0]

\* A distance widened by one leading zero byte, and 2^k in that width, so
\* that 2^XOR_NAME_BITS and 2^(XOR_NAME_BITS + 1) can be compared with it.
Wide(d) == <<0>> \o d

Pow2Wide(k) ==
    [i \in 1..(XOR_NAME_LEN + 1) |->
        IF XOR_NAME_LEN + 1 - i = k \div 8 THEN Pow2(k % 8) ELSE 0]

\* 2^k <= d < 2^(k+1), that is floor(log2(d)) = k.
FloorLog2Is(d, k) ==
    /\ k >= 0
    /\ ~NumLess(Wide(d), Pow2Wide(k))
    /\ NumLess(Wide(d), Pow2Wide(k + 1))

\* ------------------------------------------------------------------------
\* Properties of the distance and ordering operations
\* ------------------------------------------------------------------------

\* C1: self.cmp_distance(lhs, rhs) is the three-way comparison of the full
\* XOR distances lhs XOR self and rhs XOR self read as unsigned big-endian
\* integers; stopping at the first byte where lhs and rhs differ never
\* changes the result.
C1_CmpDistanceIsNumericOrder ==
    op = "cmp_distance" =>
        res = NumCmp(XorDistance(lhs, self), XorDistance(rhs, self))

\* lhs and rhs differ in two bytes, the later one ordered the other way, and
\* the distance order is the reverse of the plain order.
C1_Witness ==
    /\ op = "cmp_distance"
    /\ res = "Less"
    /\ LexCmp(lhs, rhs) = "Greater"
    /\ \E i, j \in 1..XOR_NAME_LEN :
          /\ i < j
          /\ lhs[i] # rhs[i]
          /\ BitXor(lhs[j], self[j]) > BitXor(rhs[j], self[j])

\* C2: for lhs # rhs, closer_to_target(lhs, rhs, target) is the negation of
\* closer_to_target_or_equal(rhs, lhs, target), and cmp_distance(lhs, rhs)
\* is the reverse of cmp_distance(rhs, lhs).
C2_DistanceAntisymmetry ==
    /\ (op = "closer_to_target" /\ lhs # rhs) =>
          res = ~closer_to_target_or_equal(rhs, lhs, self)
    /\ (op = "closer_to_target_or_equal" /\ lhs # rhs) =>
          res = ~closer_to_target(rhs, lhs, self)
    /\ (op = "cmp_distance" /\ lhs # rhs) =>
          /\ res # "Equal"
          /\ res = Reverse(cmp_distance(self, rhs, lhs))

C2_Witness ==
    /\ op = "closer_to_target"
    /\ lhs # rhs
    /\ self # lhs
    /\ self # rhs
    /\ res = TRUE
    /\ closer_to_target_or_equal(rhs, lhs, self) = FALSE

\* C3: a name is strictly closer to itself than any other name is:
\* closer_to_target(x, y, x) is true and closer_to_target(y, x, x) is false
\* for y # x.
C3_IdentityDistance ==
    /\ (op = "closer_to_target" /\ lhs = self /\ rhs # self) => res = TRUE
    /\ (op = "closer_to_target" /\ rhs = self /\ lhs # self) => res = FALSE

C3_Witness ==
    /\ op = "closer_to_target"
    /\ lhs = self
    /\ rhs # self
    /\ res = TRUE
    /\ LexCmp(lhs, rhs) = "Greater"

\* C4: self.bucket_index(name) is the number of leading bits on which the
\* two names agree; it lies in 0..XOR_NAME_BITS, is XOR_NAME_BITS exactly
\* when the names are equal, and is symmetric.
C4_BucketIndexIsCommonPrefix ==
    op = "bucket_index" =>
        /\ res = CommonPrefixBits(self, lhs)
        /\ 0 <= res /\ res <= XOR_NAME_BITS
        /\ (res = XOR_NAME_BITS) <=> (self = lhs)
        /\ res = bucket_index(lhs, self)

\* The names first differ in the last byte, below its top bit.
C4_Witness ==
    /\ op = "bucket_index"
    /\ res > 8 * (XOR_NAME_LEN - 1)
    /\ res < XOR_NAME_BITS

\* C5: Ord::cmp is the lexicographic order of the byte arrays, which is the
\* numeric order of the names as unsigned big-endian integers and the order
\* by distance from the all-zero name; partial_cmp, lt, le, gt and ge agree
\* with it.
C5_TotalOrderIsNumericOrder ==
    LET n == NumCmp(lhs, rhs)
    IN  /\ op = "cmp" =>
              /\ res = LexCmp(lhs, rhs)
              /\ res = n
              /\ res = cmp_distance(ZeroName, lhs, rhs)
        /\ op = "partial_cmp" => res = <<"Some", n>>
        /\ op = "lt" => res = (n = "Less")
        /\ op = "le" => res = (n # "Greater")
        /\ op = "gt" => res = (n = "Greater")
        /\ op = "ge" => res = (n # "Less")

\* lhs is the greater name although a later byte of it is the smaller one.
C5_Witness ==
    /\ op = "cmp"
    /\ res = "Greater"
    /\ \E j \in 1..XOR_NAME_LEN : lhs[j] < rhs[j]

\* C9 as stated: the bucket distance n = XOR_NAME_BITS - bucket_index equals
\* floor(log2(d)) for the XOR distance d > 0.
C9_BucketDistanceIsFloorLog2 ==
    (op = "bucket_index" /\ self # lhs) =>
        FloorLog2Is(XorDistance(self, lhs), XOR_NAME_BITS - res)

\* C9 amended: the bucket distance n = XOR_NAME_BITS - bucket_index equals
\* floor(log2(d)) + 1 for the XOR distance d > 0, that is
\* 2^(n-1) <= d < 2^n.
C9_BucketDistanceIsBitLength ==
    (op = "bucket_index" /\ self # lhs) =>
        FloorLog2Is(XorDistance(self, lhs), XOR_NAME_BITS - res - 1)

\* The names differ, and first in a bit that is not the top bit of a byte.
C9_Witness ==
    /\ op = "bucket_index"
    /\ self # lhs
    /\ res % 8 # 0
    /\ res < 8

\* C10: a longer common prefix with self means strictly closer to self: if
\* self.bucket_index(lhs) > self.bucket_index(rhs) then
\* self.cmp_distance(lhs, rhs) is Less; and if it is not Greater then
\* self.bucket_index(lhs) >= self.bucket_index(rhs).
C10_BucketIndexConsistentWithDistance ==
    op = "cmp_distance" =>
        /\ bucket_index(self, lhs) > bucket_index(self, rhs) => res = "Less"
        /\ res # "Greater" => bucket_index(self, lhs) >= bucket_index(self, rhs)

\* lhs shares the longer prefix with self although it is the greater name.
C10_Witness ==
    /\ op = "cmp_distance"
    /\ bucket_index(self, lhs) > bucket_index(self, rhs)
    /\ bucket_index(self, lhs) < XOR_NAME_BITS
    /\ LexCmp(lhs, rhs) = "Greater"
    /\ res = "Less"

\* ------------------------------------------------------------------------
\* Specification of the codecs: a name, an input string and an input
\* sequence are drawn; as_hex and encode overwrite the string and the
\* sequence with what they produce, from_hex and decode read them.
\* ------------------------------------------------------------------------

Repeat(c, n) == [i \in 1..n |-> c]

Put(s, p, x) == IF p \in 1..Len(s) THEN [s EXCEPT ![p] = x] ELSE s

TextLens ==
    (0..MaxSlack) \cup ((2 * XOR_NAME_LEN - MaxSlack)..(2 * XOR_NAME_LEN + MaxSlack))

\* Strings of one repeated hex digit in which up to two characters (the
\* second, and the first or the last) are replaced.
TextsOf(c) ==
    {Put(Put(Repeat(c, n), IF atEnd THEN n ELSE 1, x), 2, y) :
        n \in TextLens, atEnd \in BOOLEAN,
        x \in {c, "F", "g", " ", "\n"}, y \in {c, " ", "z"}}

Texts == TextsOf("0") \cup TextsOf("a")

\* Sequences with a wrong length tag, too few elements, or an element that
\* is no u8.
Wires ==
    {[len |-> n, elts |-> Repeat(e, m)] :
        n \in {0, XOR_NAME_LEN - 1, XOR_NAME_LEN, XOR_NAME_LEN + 1},
        m \in {XOR_NAME_LEN - 1, XOR_NAME_LEN},
        e \in {7, 256}}

InitCodec ==
    /\ self \in CodecNames
    /\ lhs = self
    /\ rhs = self
    /\ \/ text \in Texts /\ wire = NoWire
       \/ text = NoText /\ wire \in Wires
    /\ op = "new"
    /\ res = "none"

AsHex ==
    /\ op' = "as_hex"
    /\ res' = as_hex(self)
    /\ text' = res'
    /\ UNCHANGED <<self, lhs, rhs, wire>>

FromHex ==
    /\ op' = "from_hex"
    /\ res' = from_hex(text)
    /\ UNCHANGED <<self, lhs, rhs, text, wire>>

GetDebugId ==
    /\ op' = "get_debug_id"
    /\ res' = get_debug_id(self)
    /\ UNCHANGED <<self, lhs, rhs, text, wire>>

Encode ==
    /\ op' = "encode"
    /\ res' = encode(self)
    /\ wire' = res'
    /\ UNCHANGED <<self, lhs, rhs, text>>

Decode ==
    /\ op' = "decode"
    /\ res' = decode(wire)
    /\ UNCHANGED <<self, lhs, rhs, text, wire>>

NextCodec ==
    \/ AsHex
    \/ FromHex
    \/ GetDebugId
    \/ Encode
    \/ Decode

SpecCodec == InitCodec /\ [][NextCodec]_vars

\* ------------------------------------------------------------------------
\* Notions the properties of the codecs are stated with
\* ------------------------------------------------------------------------

HexDigitChars ==
    {"0", "1", "2", "3", "4", "5", "6", "7", "8", "9",
     "a", "b", "c", "d", "e", "f", "A", "B", "C", "D", "E", "F"}

AsciiWhitespace == {" ", "\t", "\r", "\n"}

\* The value of a hex digit, of either case.
DigitValue(c) ==
    CHOOSE v \in 0..15 :
        \/ c = <<"0", "1", "2", "3", "4", "5", "6", "7",
                 "8", "9", "a", "b", "c", "d", "e", "f">>[v + 1]
        \/ c = <<"0", "1", "2", "3", "4", "5", "6", "7",
                 "8", "9", "A", "B", "C", "D", "E", "F">>[v + 1]

IsHexDigitChar(c) == c \in HexDigitChars

\* The hex digits of a string, in order.
DigitsOf(s) == SelectSeq(s, IsHexDigitChar)

\* The bytes that an even number of hex digits stand for.
BytesOf(digits) ==
    [i \in 1..(Len(digits) \div 2) |->
        16 * DigitValue(digits[2 * i - 1]) + DigitValue(digits[2 * i])]

\* The 0-based indices of the characters of s outside a set of characters.
IndicesOutside(s, chars) == {i \in 0..(Len(s) - 1) : s[i + 1] \notin chars}

Least(S) == CHOOSE i \in S : \A j \in S : i <= j

\* ------------------------------------------------------------------------
\* Properties of the codecs
\* ------------------------------------------------------------------------

\* C6: both codecs round-trip: from_hex(x.as_hex()) is Ok(x); the sequence
\* encoding of x is the length tag XOR_NAME_LEN followed by the bytes of x
\* in index order, and decoding it gives a name equal to x byte for byte.
C6_CodecsRoundTrip ==
    /\ (op = "from_hex" /\ text = as_hex(self)) => res = Ok(self)
    /\ op = "encode" =>
          /\ wire.len = XOR_NAME_LEN
          /\ Len(wire.elts) = XOR_NAME_LEN
          /\ \A i \in 1..XOR_NAME_LEN : wire.elts[i] = self[i]
    /\ (op = "decode" /\ wire = encode(self)) =>
          /\ res.tag = "Ok"
          /\ \A i \in 1..XOR_NAME_LEN : res.val[i] = self[i]

\* A name no two of whose bytes are equal has been written by as_hex and by
\* encode, and read back by decode.
C6_Witness ==
    /\ op = "decode"
    /\ self = RampName(1)
    /\ text = as_hex(self)
    /\ wire = encode(self)
    /\ res = Ok(self)
    /\ from_hex(text) = Ok(self)

\* C7 as stated: from_hex(s) fails with InvalidCharacter(c, p) if s contains
\* a character c that is no hex digit, p being its 0-based index; otherwise
\* with InvalidLength if s does not decode to XOR_NAME_LEN bytes (so for
\* every s of odd length); it is Ok only when s decodes to XOR_NAME_LEN
\* bytes, and it never panics.
C7_FromHexRejectsEveryNonHexDigit ==
    op = "from_hex" =>
        LET bad == IndicesOutside(text, HexDigitChars)
        IN  /\ res.tag # "panic"
            /\ IF bad # {}
               THEN /\ res.tag = "InvalidCharacter"
                    /\ \E p \in bad : res.val = <<text[p + 1], p>>
               ELSE IF Len(text) # 2 * XOR_NAME_LEN
               THEN res.tag = "InvalidLength"
               ELSE res = Ok(BytesOf(text))
            /\ Len(text) % 2 = 1 => res.tag # "Ok"

\* C7 amended: from_hex(s) fails with InvalidCharacter(c, p) if s contains a
\* character that is neither a hex digit nor ASCII whitespace (space, tab,
\* CR, LF), c being the first such character and p its 0-based index;
\* otherwise, whitespace being skipped, it fails with InvalidLength if the
\* hex digits of s do not decode to exactly XOR_NAME_LEN bytes (so whenever
\* their number is odd), and else is Ok of those bytes; it never panics.
C7_FromHexErrors ==
    op = "from_hex" =>
        LET bad == IndicesOutside(text, HexDigitChars \cup AsciiWhitespace)
            digits == DigitsOf(text)
        IN  /\ res.tag # "panic"
            /\ IF bad # {}
               THEN res = Err("InvalidCharacter", <<text[Least(bad) + 1], Least(bad)>>)
               ELSE IF Len(digits) # 2 * XOR_NAME_LEN
               THEN res = Err("InvalidLength", <<>>)
               ELSE res = Ok(BytesOf(digits))
            /\ Len(digits) % 2 = 1 => res.tag # "Ok"

\* A string of odd length, one character of which is a space, decodes.
C7_Witness ==
    /\ op = "from_hex"
    /\ Len(text) = 2 * XOR_NAME_LEN + 1
    /\ IndicesOutside(text, HexDigitChars) # {}
    /\ res.tag = "Ok"

\* C8: the debug string has length 14, ".." at positions 6..8, and the
\* first 6 and last 6 characters of as_hex(), whose length is
\* 2 * XOR_NAME_LEN, also when bytes are below 0x10.
C8_DebugFormShape ==
    op = "get_debug_id" =>
        LET full_id == as_hex(self)
        IN  /\ Len(res) = 14
            /\ Len(full_id) = 2 * XOR_NAME_LEN
            /\ SubSeq(res, 1, 6) = SubSeq(full_id, 1, 6)
            /\ SubSeq(res, 9, 14) =
                   SubSeq(full_id, 2 * XOR_NAME_LEN - 5, 2 * XOR_NAME_LEN)
            /\ SubSeq(res, 7, 8) = <<".", ".">>
            /\ \A i \in 1..XOR_NAME_LEN :
                   /\ DigitValue(full_id[2 * i - 1]) = self[i] \div 16
                   /\ DigitValue(full_id[2 * i]) = self[i] % 16
                   /\ full_id[2 * i - 1] \notin {"A", "B", "C", "D", "E", "F"}
                   /\ full_id[2 * i] \notin {"A", "B", "C", "D", "E", "F"}

\* The name of bytes 0x01 has the debug form "010101..010101".
C8_Witness ==
    /\ op = "get_debug_id"
    /\ self = LowCharName
    /\ res = <<"0", "1", "0", "1", "0", "1", ".", ".", "0", "1", "0", "1", "0", "1">>

====
